---- MODULE Spec2Model ----
(***************************************************************************)
(* A model of maimai_py/maimai.py: the song catalog (MaimaiSongs), the     *)
(* score aggregate (MaimaiScores) and the plate engine (MaimaiPlates),     *)
(* together with the process-wide state they touch (caches.cached_songs    *)
(* and the class attribute MaimaiPlates.songs).                            *)
(*                                                                         *)
(* Plate tokens are written in pinyin: chu, zhen, chao, xiong, ba, wu for  *)
(* the version tokens and zhe, jiang, ji, wuwu, shen for the goal kinds.   *)
(***************************************************************************)
EXTENDS Integers, Sequences, FiniteSets, TLC

VARIABLES
    cached_songs,   \* caches.cached_songs: None or Some(catalog)
    provider,       \* what the song and alias providers return: [songs, aliases]
    raised,         \* the exception the last operation raised (NoError if none)
    lookup,         \* the last catalog query or plate construction: [op, arg, result]
    distinct_call,  \* the last call of _get_distinct_scores: [in, out]
    chain,          \* a MaimaiScores construction, then as_distinct of it, ...
    pools,          \* the locals scores_old / scores_new of the last derivation
    plate_songs,    \* the class attribute MaimaiPlates.songs
    plates,         \* the MaimaiPlates objects constructed so far
    player          \* what the score provider returns: [b35, b15, all]

vars == <<cached_songs, provider, raised, lookup, distinct_call, chain, pools,
          plate_songs, plates, player>>

----------------------------------------------------------------------------
(* Python values *)

\* Python's None, and a present value
None == << >>
Some(x) == <<x>>
IsNone(o) == o = << >>
Val(o) == o[1]

NoError == [type |-> "none", line |-> 0]
NoLookup == [op |-> "none", arg |-> 0, result |-> << >>]
Error(t, l) == [type |-> t, line |-> l]

\* a dict: keys in insertion order, and the value of each key
DictEmpty == [keys |-> << >>, val |-> << >>]
DictIndex(d, k) ==
    IF \E i \in 1..Len(d.keys) : d.keys[i] = k
    THEN CHOOSE i \in 1..Len(d.keys) : d.keys[i] = k
    ELSE 0
DictHas(d, k) == DictIndex(d, k) # 0
\* d[k] = v: a new key goes last, an old key keeps its place
DictSet(d, k, v) ==
    IF DictHas(d, k)
    THEN [d EXCEPT !.val[DictIndex(d, k)] = v]
    ELSE [keys |-> Append(d.keys, k), val |-> Append(d.val, v)]
\* d.get(k, default)
DictGet(d, k, default) ==
    IF DictHas(d, k) THEN d.val[DictIndex(d, k)] ELSE default
DictValues(d) == d.val

SeqToSet(s) == {s[i] : i \in 1..Len(s)}

RECURSIVE SeqsUpTo(_, _)
\* every sequence over S of length at most n
SeqsUpTo(S, n) ==
    IF n = 0 THEN {<< >>}
    ELSE LET shorter == SeqsUpTo(S, n - 1)
         IN shorter \cup {Append(s, x) : s \in {t \in shorter : Len(t) = n - 1}, x \in S}

RECURSIVE SumSeq(_)
SumSeq(s) == IF s = << >> THEN 0 ELSE s[1] + SumSeq(Tail(s))

----------------------------------------------------------------------------
(* MaimaiSongs *)

MaxSongs == 2
MaxAliasEntries == 2

\* A song object. standard and dx are its two difficulty groups, each a
\* sequence of [level_index, version].
Song(id, version, standard, dx) ==
    [id |-> id, version |-> version, aliases |-> None,
     standard |-> standard, dx |-> dx]

SongAlias(song_id, aliases) == [song_id |-> song_id, aliases |-> aliases]

RECURSIVE song_id_dict_of(_, _)
\* {song.id: song for song in songs}, over songs[1..n]; a value is a
\* reference to the song object (its place in the song list)
song_id_dict_of(songs, n) ==
    IF n = 0 THEN DictEmpty
    ELSE DictSet(song_id_dict_of(songs, n - 1), songs[n].id, n)

RECURSIVE alias_entries(_, _, _, _)
\* for alias_entry in alias.aliases: d[alias_entry] = alias.song_id
alias_entries(d, entries, song_id, n) ==
    IF n = 0 THEN d
    ELSE DictSet(alias_entries(d, entries, song_id, n - 1), entries[n], song_id)

RECURSIVE apply_aliases(_, _, _)
\* the loop over aliases[1..n] of MaimaiSongs.__init__
apply_aliases(cat, aliases, n) ==
    IF n = 0 THEN cat
    ELSE LET c == apply_aliases(cat, aliases, n - 1)
             alias == aliases[n]
             target_song == DictGet(c.song_id_dict, alias.song_id, 0)
             objs == IF target_song # 0
                     THEN [c.objs EXCEPT ![target_song].aliases = Some(alias.aliases)]
                     ELSE c.objs
         IN [objs |-> objs,
             song_id_dict |-> c.song_id_dict,
             alias_entry_dict |->
                 alias_entries(c.alias_entry_dict, alias.aliases, alias.song_id,
                               Len(alias.aliases))]

\* MaimaiSongs(songs, aliases): the catalog, or the exception raised.
\* aliases is None or Some(list); iterating None raises TypeError.
MaimaiSongs_init(songs, aliases) ==
    LET cat0 == [objs |-> songs,
                 song_id_dict |-> song_id_dict_of(songs, Len(songs)),
                 alias_entry_dict |-> DictEmpty]
    IN IF IsNone(aliases)
       THEN [ok |-> FALSE, err |-> Error("TypeError", 20), obj |-> cat0]
       ELSE [ok |-> TRUE, err |-> NoError,
             obj |-> apply_aliases(cat0, Val(aliases), Len(Val(aliases)))]

\* MaimaiSongs.songs: the values of the id dict
songs_of(cat) == DictValues(cat.song_id_dict)

\* the mutant of by_id: the dict is read by position, not by song id
by_id_by_position(cat, id) ==
    IF id \in 1..Len(cat.song_id_dict.val) THEN Some(cat.song_id_dict.val[id]) ELSE None

\* MaimaiSongs.by_id: None, or Some(reference to the song object)
by_id(cat, id) ==
    IF DictHas(cat.song_id_dict, id)
    THEN Some(DictGet(cat.song_id_dict, id, 0))
    ELSE None

\* MaimaiSongs.by_alias
by_alias(cat, alias) ==
    LET song_id == DictGet(cat.alias_entry_dict, alias, 0)
    IN by_id(cat, song_id)

(* the inputs of the catalog checks *)
CatalogSongIds == {0, 1, 2}
CatalogSongs == {Song(id, 10000, << >>, << >>) : id \in CatalogSongIds}
CatalogSongLists == SeqsUpTo(CatalogSongs, MaxSongs)
AliasTargets == {0, 1, 7}
AliasStrings == {"huali", "oshama"}
AliasEntries ==
    {SongAlias(id, a) : id \in AliasTargets, a \in {<<"huali">>, <<"huali", "oshama">>}}
AliasLists ==
    {None} \cup {Some(l) : l \in SeqsUpTo(AliasEntries, MaxAliasEntries)}
LookupIds == CatalogSongIds \cup AliasTargets
LookupAliases == AliasStrings \cup {"unknown"}

\* MaimaiClient.songs: the catalog is built from what the providers return
\* and cached; an exception leaves the cache as it was
Songs ==
    LET r == MaimaiSongs_init(provider.songs, provider.aliases)
    IN /\ raised' = r.err
       /\ cached_songs' = IF r.ok THEN Some(r.obj) ELSE cached_songs
       /\ lookup' = NoLookup
       /\ UNCHANGED <<provider, distinct_call, chain, pools, plate_songs, plates, player>>

ById ==
    /\ ~IsNone(cached_songs)
    /\ \E id \in LookupIds :
          lookup' = [op |-> "by_id", arg |-> id, result |-> by_id(Val(cached_songs), id)]
    /\ raised' = NoError
    /\ UNCHANGED <<cached_songs, provider, distinct_call, chain, pools,
                   plate_songs, plates, player>>

ByAlias ==
    /\ ~IsNone(cached_songs)
    /\ \E a \in LookupAliases :
          lookup' = [op |-> "by_alias", arg |-> a, result |-> by_alias(Val(cached_songs), a)]
    /\ raised' = NoError
    /\ UNCHANGED <<cached_songs, provider, distinct_call, chain, pools,
                   plate_songs, plates, player>>

----------------------------------------------------------------------------
(* Score and MaimaiScores *)

MaxScores == 3     \* the longest full score list a provider returns
MaxBest == 16      \* the longest precomputed best list a provider returns
MaxChain == 3      \* s, s.as_distinct, s.as_distinct.as_distinct

B35Limit == 35
B15Limit == 15
\* enums.current_version
current_version == 24000

Score(id, type, level_index, grade) ==
    [id |-> id, type |-> type, level_index |-> level_index,
     dx_rating |-> grade[1], dx_score |-> grade[2], achievements |-> grade[3],
     rate |-> grade[4], fc |-> grade[5], fs |-> grade[6]]

\* the sort key of lines 309-310
SortKey(score) == <<score.dx_rating, score.dx_score, score.achievements>>
\* tuple comparison a > b
KeyGreater(a, b) ==
    \/ a[1] > b[1]
    \/ a[1] = b[1] /\ a[2] > b[2]
    \/ a[1] = b[1] /\ a[2] = b[2] /\ a[3] > b[3]

\* Score.compare(other): the better of the two under (dx_rating, dx_score,
\* achievements); the score already kept stays on a tie
compare(self, other) ==
    IF IsNone(other) THEN self
    ELSE IF KeyGreater(SortKey(self), SortKey(Val(other))) THEN self ELSE Val(other)

\* f"{score.id} {score.type} {score.level_index}": the three fields joined by
\* single spaces, none of which holds a space, so the string determines them
score_key(score) == <<score.id, score.type, score.level_index>>

RECURSIVE scores_unique_of(_, _)
\* the dict the loop of _get_distinct_scores has built after scores[1..n]
\* (a value v is held as Some(v), so that get can answer None)
scores_unique_of(scores, n) ==
    IF n = 0 THEN DictEmpty
    ELSE LET d == scores_unique_of(scores, n - 1)
             score == scores[n]
         IN DictSet(d, score_key(score),
                    Some(compare(score, DictGet(d, score_key(score), None))))

\* list(d.values()) of such a dict
ValuesList(d) == [i \in 1..Len(d.val) |-> Val(d.val[i])]

RECURSIVE Reverse(_)
Reverse(s) == IF s = << >> THEN << >> ELSE Append(Reverse(Tail(s)), Head(s))

RECURSIVE last_seen_of(_, _)
last_seen_of(scores, n) ==
    IF n = 0 THEN DictEmpty
    ELSE DictSet(last_seen_of(scores, n - 1), score_key(scores[n]), Some(scores[n]))

\* mutants of _get_distinct_scores: the score seen last is kept, whatever it
\* is worth; and the values come out in reverse
get_distinct_scores_last_seen(scores) ==
    ValuesList(last_seen_of(scores, Len(scores)))
get_distinct_scores_reversed(scores) ==
    Reverse(ValuesList(scores_unique_of(scores, Len(scores))))

\* MaimaiScores._get_distinct_scores
get_distinct_scores(scores) ==
    ValuesList(scores_unique_of(scores, Len(scores)))

RECURSIVE InsertDesc(_, _)
\* x put into the descending list s, after the elements that are not smaller
InsertDesc(s, x) ==
    IF s = << >> THEN <<x>>
    ELSE IF KeyGreater(SortKey(x), SortKey(Head(s))) THEN <<x>> \o s
    ELSE <<Head(s)>> \o InsertDesc(Tail(s), x)

RECURSIVE SortedDesc(_, _)
SortedDesc(s, n) == IF n = 0 THEN << >> ELSE InsertDesc(SortedDesc(s, n - 1), s[n])

\* list.sort(key=..., reverse=True): the list is sorted in place (stable,
\* descending) and the call returns None
list_sort(l) == [list |-> SortedDesc(l, Len(l)), ret |-> None]

\* x[:n]: None is not subscriptable
Subscriptable(x) == ~IsNone(x)
Slice(l, n) == SubSeq(l, 1, IF Len(l) < n THEN Len(l) ELSE n)

\* the truth value of a list or None
Truthy(o) == ~IsNone(o) /\ Val(o) # << >>

RECURSIVE partition(_, _, _)
\* lines 304-308 after distinct_scores[1..n]: a score whose song the catalog
\* does not hold goes to neither list
partition(distinct_scores, songs, n) ==
    IF n = 0 THEN [scores_new |-> << >>, scores_old |-> << >>]
    ELSE LET p == partition(distinct_scores, songs, n - 1)
             score == distinct_scores[n]
             song == by_id(songs, score.id)
         IN IF IsNone(song) THEN p
            ELSE IF songs.objs[Val(song)].version >= current_version
                 THEN [p EXCEPT !.scores_new = Append(@, score)]
                 ELSE [p EXCEPT !.scores_old = Append(@, score)]

SumRating(scores) == SumSeq([i \in 1..Len(scores) |-> scores[i].dx_rating])

NoObject == [scores |-> << >>, scores_b35 |-> << >>, scores_b15 |-> << >>,
             rating |-> 0, rating_b35 |-> 0, rating_b15 |-> 0]

\* a mutant of Aggregate: the two best lists are stored the wrong way round
AggregateSwapped(scores, b35, b15) ==
    [scores |-> scores, scores_b35 |-> b15, scores_b15 |-> b35,
     rating_b35 |-> SumRating(b15), rating_b15 |-> SumRating(b35),
     rating |-> SumRating(b35) + SumRating(b15)]

\* a mutant of Aggregate: the total is taken over the full score list
AggregateTotalOfAll(scores, b35, b15) ==
    [scores |-> scores, scores_b35 |-> b35, scores_b15 |-> b15,
     rating_b35 |-> SumRating(b35), rating_b15 |-> SumRating(b15),
     rating |-> SumRating(scores)]

\* lines 311-315
Aggregate(scores, b35, b15) ==
    [scores |-> scores, scores_b35 |-> b35, scores_b15 |-> b15,
     rating_b35 |-> SumRating(b35), rating_b15 |-> SumRating(b15),
     rating |-> SumRating(b35) + SumRating(b15)]

Failed(type, line, cache, distinct, pool) ==
    [ok |-> FALSE, err |-> Error(type, line), obj |-> NoObject,
     cached_songs |-> cache, distinct |-> distinct, pools |-> pool]

\* MaimaiScores(b35, b15, all), each None or Some(list), in a process whose
\* catalog cache is `cache` and whose providers return `prov`: the object or
\* the exception, the cache afterwards, and the locals of the derivation
MaimaiScores_init(b35, b15, all, cache, prov) ==
    IF ~Truthy(all) /\ (IsNone(b35) \/ IsNone(b15))
    THEN Failed("TypeError", 299, cache, None, None)          \* b35 + b15
    ELSE
    LET scores == IF Truthy(all) THEN Val(all) ELSE Val(b35) \o Val(b15)
    IN IF (~Truthy(b35) \/ ~Truthy(b15)) /\ Truthy(all)
       THEN LET distinct_scores == get_distinct_scores(Val(all))
                fresh == MaimaiSongs_init(prov.songs, prov.aliases)
            IN IF IsNone(cache) /\ ~fresh.ok
               THEN Failed(fresh.err.type, fresh.err.line, cache,
                           Some([in |-> Val(all), out |-> distinct_scores]), None)
               ELSE
               LET songs == IF IsNone(cache) THEN fresh.obj ELSE Val(cache)
                   p == partition(distinct_scores, songs, Len(distinct_scores))
                   sorted_old == list_sort(p.scores_old)
                   sorted_new == list_sort(p.scores_new)
                   call == Some([in |-> Val(all), out |-> distinct_scores])
               IN IF ~Subscriptable(sorted_old.ret)
                  THEN Failed("TypeError", 309, Some(songs), call,
                              Some([scores_old |-> sorted_old.list,
                                    scores_new |-> p.scores_new]))
                  ELSE IF ~Subscriptable(sorted_new.ret)
                  THEN Failed("TypeError", 310, Some(songs), call,
                              Some([scores_old |-> sorted_old.list,
                                    scores_new |-> sorted_new.list]))
                  ELSE [ok |-> TRUE, err |-> NoError,
                        obj |-> Aggregate(scores,
                                          Slice(Val(sorted_old.ret), B35Limit),
                                          Slice(Val(sorted_new.ret), B15Limit)),
                        cached_songs |-> Some(songs), distinct |-> call,
                        pools |-> Some([scores_old |-> sorted_old.list,
                                        scores_new |-> sorted_new.list])]
       ELSE [ok |-> TRUE, err |-> NoError,
             obj |-> Aggregate(scores, Val(b35), Val(b15)),
             cached_songs |-> cache, distinct |-> None, pools |-> None]

\* MaimaiClient.scores: a MaimaiScores of what the score provider returns
Scores ==
    LET r == MaimaiScores_init(player.b35, player.b15, player.all, cached_songs, provider)
    IN /\ chain' = <<[ok |-> r.ok, obj |-> r.obj]>>
       /\ raised' = r.err
       /\ cached_songs' = r.cached_songs
       /\ pools' = r.pools
       /\ distinct_call' = IF IsNone(r.distinct) THEN distinct_call ELSE Val(r.distinct)
       /\ UNCHANGED <<provider, lookup, plate_songs, plates, player>>

\* MaimaiScores.as_distinct of the newest object of the chain
AsDistinct ==
    /\ chain # << >>
    /\ Len(chain) < MaxChain
    /\ chain[Len(chain)].ok
    /\ LET self == chain[Len(chain)].obj
           distinct_scores == get_distinct_scores(self.scores)
           r == MaimaiScores_init(Some(self.scores_b35), Some(self.scores_b15),
                                  Some(distinct_scores), cached_songs, provider)
       IN /\ chain' = Append(chain, [ok |-> r.ok, obj |-> r.obj])
          /\ raised' = r.err
          /\ cached_songs' = r.cached_songs
          /\ pools' = r.pools
          /\ distinct_call' = IF IsNone(r.distinct)
                              THEN [in |-> self.scores, out |-> distinct_scores]
                              ELSE Val(r.distinct)
    /\ UNCHANGED <<provider, lookup, plate_songs, plates, player>>

(* the inputs of the score checks *)
GradeA == <<10, 100, 98, "SS", "none", "none">>
GradeB == <<10, 100, 99, "SS", "none", "none">>
GradeC == <<12, 90, 97, "S", "none", "none">>
\* song 1 is older than the current version, song 2 is of it, and no
\* catalog holds song 9
FullScores ==
    {Score(1, "dx", 3, GradeA), Score(1, "dx", 3, GradeB), Score(1, "standard", 3, GradeC),
     Score(2, "dx", 3, GradeA), Score(2, "dx", 3, GradeC), Score(9, "dx", 3, GradeA)}
ScoreCatalog ==
    [songs |-> <<Song(1, 23000, << >>, <<[level_index |-> 3, version |-> 23000]>>),
                 Song(2, 24000, << >>, <<[level_index |-> 3, version |-> 24000]>>)>>,
     aliases |-> Some(<< >>)]
\* a best list of n scores, as a provider computes it
BestList(n) ==
    [i \in 1..n |-> Score(1 + (i % 2), "dx", i, <<50 - i, 100, 99, "SS", "none", "none">>)]
BestLists == {None} \cup {Some(BestList(n)) : n \in {0, 2, MaxBest}}
FullLists == {None} \cup {Some(l) : l \in SeqsUpTo(FullScores, MaxScores)}

----------------------------------------------------------------------------
(* MaimaiPlates *)

MaxPlates == 2        \* the plates one process constructs
MaxPlateScores == 2   \* the longest score list the provider returns for a plate

\* LevelIndex.ReMASTER
ReMASTER == 4

\* enums.plate_to_version, in insertion order: the ordinal of each version token
plate_to_version ==
    [keys |-> <<"chu", "zhen", "chao", "xiong">>, val |-> <<10000, 11000, 12000, 20000>>]
\* enums.plate_aliases: other spellings of the tokens
plate_aliases ==
    [keys |-> <<"ba_variant", "ji_variant">>, val |-> <<"ba", "ji">>]

\* RateType, FCType and FSType values: a lower value is a better grade
RateValue(rate) ==
    CASE rate = "SSSP" -> 0 [] rate = "SSS" -> 1 [] rate = "SSP" -> 2 [] rate = "SS" -> 3
      [] rate = "SP" -> 4 [] rate = "S" -> 5 [] rate = "AAA" -> 6 [] rate = "AA" -> 7
      [] rate = "A" -> 8 [] rate = "BBB" -> 9 [] rate = "BB" -> 10 [] rate = "B" -> 11
      [] rate = "C" -> 12 [] rate = "D" -> 13
FCValue(fc) ==
    CASE fc = "APP" -> 0 [] fc = "AP" -> 1 [] fc = "FCP" -> 2 [] fc = "FC" -> 3
FSValue(fs) ==
    CASE fs = "FSDP" -> 0 [] fs = "FSD" -> 1 [] fs = "FSP" -> 2 [] fs = "FS" -> 3
      [] fs = "SYNC" -> 4

\* Song.get_levels(exclude_remaster): the level indices of the standard and
\* of the dx difficulties, ReMASTER left out when excluded
get_levels(song, exclude_remaster) ==
    LET all_levels == [i \in 1..Len(song.standard) |-> song.standard[i].level_index]
                        \o [i \in 1..Len(song.dx) |-> song.dx[i].level_index]
        Kept(l) == ~(exclude_remaster /\ l = ReMASTER)
    IN SelectSeq(all_levels, Kept)

PlateObject(song, levels, score) == [song |-> song, levels |-> levels, score |-> score]

\* lines 140/143/148/151: the difficulty group is not empty and its first
\* chart is of one of the versions
InEra(group, versions) ==
    /\ group # << >>
    /\ \E i \in 1..Len(versions) : group[1].version % versions[i] <= 100

\* lines 120-129: the tokens after the alias table, and the versions the
\* version token resolves to; `versions` stays unbound (None) when no branch
\* assigns it
Resolve(version_str_in, kind_in) ==
    LET version_str == DictGet(plate_aliases, version_str_in, version_str_in)
        kind == DictGet(plate_aliases, kind_in, kind_in)
        v1 == IF version_str = "zhen"
              THEN Some(<<DictGet(plate_to_version, "chu", 0),
                          DictGet(plate_to_version, "zhen", 0)>>)
              ELSE None
        Below(ver) == ver < 20000
        v2 == IF version_str \in {"ba", "wu"}
              THEN Some(SelectSeq(DictValues(plate_to_version), Below))
              ELSE v1
        v3 == IF DictGet(plate_to_version, version_str, 0) # 0
              THEN Some(<<DictGet(plate_to_version, version_str, 0)>>)
              ELSE v2
    IN [version |-> version_str, kind |-> kind, versions |-> v3]

PlateKinds == {"jiang", "zhe", "ji", "wuwu", "shen"}

RECURSIVE plate_scores_unique(_, _, _, _)
\* lines 136-144 after scores[1..n]: the best score of each key among the
\* scores of songs of the era
plate_scores_unique(scores, songs, versions, n) ==
    IF n = 0 THEN DictEmpty
    ELSE LET d == plate_scores_unique(scores, songs, versions, n - 1)
             score == scores[n]
             song == songs.objs[Val(by_id(songs, score.id))]
             k == score_key(score)
             d1 == IF InEra(song.standard, versions)
                   THEN DictSet(d, k, Some(compare(score, DictGet(d, k, None))))
                   ELSE d
         IN IF InEra(song.dx, versions)
            THEN DictSet(d1, k, Some(compare(score, DictGet(d1, k, None))))
            ELSE d1

RECURSIVE plate_songs_appended(_, _, _, _)
\* lines 146-152 after the first n songs of the catalog: self.songs, which
\* is the list of the class, with a song appended once for each of its
\* difficulty groups that is of the era
plate_songs_appended(class_songs, songs, versions, n) ==
    IF n = 0 THEN class_songs
    ELSE LET l == plate_songs_appended(class_songs, songs, versions, n - 1)
             song == songs.objs[songs_of(songs)[n]]
             l1 == IF InEra(song.standard, versions) THEN Append(l, song) ELSE l
         IN IF InEra(song.dx, versions) THEN Append(l1, song) ELSE l1

NoCache == [remained |-> None, cleared |-> None, all |-> None]

\* MaimaiPlates(scores, version_str, kind, songs) in a process whose class
\* attribute MaimaiPlates.songs is class_songs: the plate or the exception,
\* and the class attribute afterwards
MaimaiPlates_init(scores, version_str_in, kind_in, songs, class_songs) ==
    LET r == Resolve(version_str_in, kind_in)
        NoPlate(type, line) ==
            [ok |-> FALSE, err |-> Error(type, line), class_songs |-> class_songs,
             obj |-> [version |-> r.version, kind |-> r.kind, versions |-> << >>,
                      scores |-> << >>, cache |-> NoCache]]
    IN IF IsNone(r.versions) THEN NoPlate("UnboundLocalError", 128)
       ELSE IF Val(r.versions) = << >> \/ r.kind \notin PlateKinds
       THEN NoPlate("InvalidPlateError", 129)
       ELSE IF \E i \in 1..Len(scores) : IsNone(by_id(songs, scores[i].id))
       THEN NoPlate("AttributeError", 139)
       ELSE [ok |-> TRUE, err |-> NoError,
             class_songs |->
                 plate_songs_appended(class_songs, songs, Val(r.versions),
                                      Len(songs_of(songs))),
             obj |-> [version |-> r.version, kind |-> r.kind,
                      versions |-> Val(r.versions),
                      scores |-> ValuesList(plate_scores_unique(
                                     scores, songs, Val(r.versions), Len(scores))),
                      cache |-> NoCache]]

\* MaimaiPlates.no_remaster
no_remaster(self) == self.version \notin {"wu", "ba"}

\* a mutant of Meets: the comparison is the wrong way round
MeetsReversed(kind, score) ==
    CASE kind = "zhe" -> RateValue(score.rate) >= RateValue("A")
      [] kind = "jiang" -> RateValue(score.rate) >= RateValue("SSS")
      [] kind = "ji" -> score.fc # "none" /\ FCValue(score.fc) >= FCValue("FC")
      [] kind = "wuwu" -> score.fs # "none" /\ FSValue(score.fs) >= FSValue("FSD")
      [] kind = "shen" -> score.fc # "none" /\ FCValue(score.fc) >= FCValue("AP")
      [] OTHER -> FALSE

\* lines 183-192 and 212-221: the score meets what the kind asks for
Meets(kind, score) ==
    CASE kind = "zhe" -> RateValue(score.rate) <= RateValue("A")
      [] kind = "jiang" -> RateValue(score.rate) <= RateValue("SSS")
      [] kind = "ji" -> score.fc # "none" /\ FCValue(score.fc) <= FCValue("FC")
      [] kind = "wuwu" -> score.fs # "none" /\ FSValue(score.fs) <= FSValue("FSD")
      [] kind = "shen" -> score.fc # "none" /\ FCValue(score.fc) <= FCValue("AP")
      [] OTHER -> FALSE

RECURSIVE RemoveFirst(_, _)
\* list.remove(x)
RemoveFirst(l, x) ==
    IF l = << >> THEN << >>
    ELSE IF Head(l) = x THEN Tail(l) ELSE <<Head(l)>> \o RemoveFirst(Tail(l), x)

\* the scores of self.scores with the song id, in order (line 173)
ScoresOfSong(self, id) ==
    LET OfSong(score) == score.id = id
    IN SelectSeq(self.scores, OfSong)

RECURSIVE results_of(_, _, _)
\* {song.id: Make(song) for song in self.songs}, over class_songs[1..n]
results_of(class_songs, Make(_), n) ==
    IF n = 0 THEN DictEmpty
    ELSE DictSet(results_of(class_songs, Make, n - 1),
                 class_songs[n].id, Make(class_songs[n]))

\* the scores the classification passes go through: those that meet the
\* kind, ReMASTER ones skipped when the plate does not ask for ReMASTER
RECURSIVE extracted(_, _, _)
\* lines 176-192 after self.scores[1..n]
extracted(self, results, n) ==
    IF n = 0 THEN results
    ELSE LET res == extracted(self, results, n - 1)
             score == self.scores[n]
             i == DictIndex(res, score.id)
         IN IF ~Meets(self.kind, score) THEN res
            ELSE IF no_remaster(self) /\ score.level_index = ReMASTER THEN res
            ELSE [res EXCEPT
                    !.val[i].score = RemoveFirst(@, score),
                    !.val[i].levels = RemoveFirst(@, score.level_index)]

RECURSIVE inserted(_, _, _)
\* lines 206-221 after self.scores[1..n]
inserted(self, results, n) ==
    IF n = 0 THEN results
    ELSE LET res == inserted(self, results, n - 1)
             score == self.scores[n]
             i == DictIndex(res, score.id)
         IN IF ~Meets(self.kind, score) THEN res
            ELSE IF no_remaster(self) /\ score.level_index = ReMASTER THEN res
            ELSE [res EXCEPT
                    !.val[i].score = Append(@, score),
                    !.val[i].levels = Append(@, score.level_index)]

HasLevels(plate) == plate.levels # << >>

\* MaimaiPlates.remained, computed now
remained(self, class_songs) ==
    LET Make(song) == PlateObject(song, get_levels(song, no_remaster(self)),
                                  ScoresOfSong(self, song.id))
        results == results_of(class_songs, Make, Len(class_songs))
    IN SelectSeq(DictValues(extracted(self, results, Len(self.scores))), HasLevels)

\* MaimaiPlates.cleared, computed now
cleared(self, class_songs) ==
    LET Make(song) == PlateObject(song, << >>, << >>)
        results == results_of(class_songs, Make, Len(class_songs))
    IN SelectSeq(DictValues(inserted(self, results, Len(self.scores))), HasLevels)

\* MaimaiPlates.all, computed now
all(self, class_songs) ==
    LET Make(song) == PlateObject(song, get_levels(song, no_remaster(self)), << >>)
    IN DictValues(results_of(class_songs, Make, Len(class_songs)))

\* len([level for plate in view for level in plate.levels])
level_count(view) == SumSeq([i \in 1..Len(view) |-> Len(view[i].levels)])

\* MaimaiClient.plates: the catalog is the cached one, fetched first when
\* there is none, and the plate is built of the scores of the player
Plates(version_strs, kinds, limit) ==
    /\ Len(plates) < limit
    /\ \E version_str \in version_strs, kind \in kinds :
          LET fresh == MaimaiSongs_init(provider.songs, provider.aliases)
              songs == IF IsNone(cached_songs) THEN fresh.obj ELSE Val(cached_songs)
              r == MaimaiPlates_init(Val(player.all), version_str, kind,
                                     songs, plate_songs)
          IN /\ lookup' = [op |-> "plates", arg |-> <<version_str, kind>>,
                           result |-> None]
             /\ IF IsNone(cached_songs) /\ ~fresh.ok
                THEN /\ raised' = fresh.err
                     /\ UNCHANGED <<cached_songs, plate_songs, plates>>
                ELSE /\ cached_songs' = Some(songs)
                     /\ raised' = r.err
                     /\ plate_songs' = r.class_songs
                     /\ plates' = IF r.ok THEN Append(plates, r.obj) ELSE plates
    /\ UNCHANGED <<provider, distinct_call, chain, pools, player>>

\* the first read of the cached property `remained` of a plate
Remained ==
    /\ \E i \in 1..Len(plates) :
          /\ IsNone(plates[i].cache.remained)
          /\ plates' = [plates EXCEPT
                          ![i].cache.remained = Some(remained(plates[i], plate_songs))]
    /\ raised' = NoError
    /\ lookup' = NoLookup
    /\ UNCHANGED <<cached_songs, provider, distinct_call, chain, pools,
                   plate_songs, player>>

\* the first read of the cached property `cleared` of a plate
Cleared ==
    /\ \E i \in 1..Len(plates) :
          /\ IsNone(plates[i].cache.cleared)
          /\ plates' = [plates EXCEPT
                          ![i].cache.cleared = Some(cleared(plates[i], plate_songs))]
    /\ raised' = NoError
    /\ lookup' = NoLookup
    /\ UNCHANGED <<cached_songs, provider, distinct_call, chain, pools,
                   plate_songs, player>>

\* the first read of the cached property `all` of a plate
All ==
    /\ \E i \in 1..Len(plates) :
          /\ IsNone(plates[i].cache.all)
          /\ plates' = [plates EXCEPT
                          ![i].cache.all = Some(all(plates[i], plate_songs))]
    /\ raised' = NoError
    /\ lookup' = NoLookup
    /\ UNCHANGED <<cached_songs, provider, distinct_call, chain, pools,
                   plate_songs, player>>

(* the inputs of the plate checks *)
Chart(level_index, version) == [level_index |-> level_index, version |-> version]
\* song 1 has standard charts of version chu, a ReMASTER among them; song 2
\* a standard chart of version zhen and a dx chart of a later version; song
\* 3 a standard chart of a revision of zhen and a dx chart of version chao
PlateSong1 == Song(1, 10000, <<Chart(3, 10000), Chart(ReMASTER, 10000)>>, << >>)
PlateSong2 == Song(2, 11000, <<Chart(3, 11000)>>, <<Chart(3, 20050)>>)
PlateSong3 == Song(3, 11050, <<Chart(3, 11050)>>, <<Chart(3, 12000)>>)
\* the catalog of the three songs, and one that lacks song 3
PlateCatalogFull ==
    [songs |-> <<PlateSong1, PlateSong2, PlateSong3>>, aliases |-> Some(<< >>)]
PlateCatalogs ==
    {PlateCatalogFull, [songs |-> <<PlateSong2, PlateSong1>>, aliases |-> Some(<< >>)]}
GradeTop == <<15, 100, 100, "SSS", "AP", "FSD">>
GradeMid == <<12, 90, 97, "A", "FC", "FS">>
GradeLow == <<8, 80, 70, "B", "none", "none">>
PlateGrades == {GradeTop, GradeMid, GradeLow}
PlateScores ==
    {Score(c[1], c[2], c[3], g) :
        c \in {<<1, "standard", ReMASTER>>, <<2, "standard", 3>>, <<2, "dx", 3>>,
               <<3, "standard", 3>>},
        g \in PlateGrades}
PlateVersionTokens == {"zhen", "chao", "wu", "ba_variant", "unknown"}
PlateKindTokens == PlateKinds \cup {"ji_variant", "unknown"}

----------------------------------------------------------------------------
NoScores == [b35 |-> None, b15 |-> None, all |-> None]

\* the state of a fresh process, for providers that return one of
\* `providers` and a score provider that returns one of `players`
InitWith(providers, players) ==
    /\ provider \in providers
    /\ player \in players
    /\ cached_songs = None
    /\ raised = NoError
    /\ lookup = NoLookup
    /\ distinct_call = [in |-> << >>, out |-> << >>]
    /\ chain = << >>
    /\ pools = None
    /\ plate_songs = << >>
    /\ plates = << >>

InitSongs ==
    InitWith([songs : CatalogSongLists, aliases : AliasLists], {NoScores})

NextSongs == Songs \/ ById \/ ByAlias

\* a process that builds the catalog and queries it
SpecSongs == InitSongs /\ [][NextSongs]_vars

InitScores ==
    InitWith({ScoreCatalog}, [b35 : BestLists, b15 : BestLists, all : FullLists])

NextScores == Songs \/ Scores \/ AsDistinct

\* a process that builds score aggregates
SpecScores == InitScores /\ [][NextScores]_vars

PlayerOf(lists) == {[b35 |-> None, b15 |-> None, all |-> Some(l)] : l \in lists}

InitPlateOnce ==
    InitWith({PlateCatalogFull}, PlayerOf(SeqsUpTo(PlateScores, MaxPlateScores)))

NextPlateOnce ==
    \/ Plates(PlateVersionTokens, PlateKindTokens, 1)
    \/ Remained \/ Cleared \/ All

\* a process that constructs one plate, of any tokens, for a player whose
\* scores are all of songs of the catalog, and reads its views
SpecPlateOnce == InitPlateOnce /\ [][NextPlateOnce]_vars

InitPlates ==
    InitWith(PlateCatalogs, PlayerOf(SeqsUpTo(PlateScores, 1)))

NextPlates ==
    \/ Plates({"zhen", "chao", "wu", "unknown"}, {"jiang", "unknown"}, MaxPlates)
    \/ Remained \/ Cleared \/ All

\* a process that constructs several plates and reads their views at any time
SpecPlates == InitPlates /\ [][NextPlates]_vars

----------------------------------------------------------------------------
(* the catalog claims *)

CatalogBuilt == ~IsNone(cached_songs)
UniqueIds(songs) ==
    \A i, j \in 1..Len(songs) : songs[i].id = songs[j].id => i = j

\* C9: in a catalog built from a song list with unique ids, by_id(song.id)
\* returns that very song object for every song of the list, and by_id of an
\* id that no song has returns None.
C9_ByIdRoundTrip ==
    (CatalogBuilt /\ lookup.op = "by_id" /\ UniqueIds(provider.songs)) =>
        /\ \A i \in 1..Len(provider.songs) :
              lookup.arg = provider.songs[i].id =>
                  /\ lookup.result = Some(i)
                  /\ Val(cached_songs).objs[i].id = lookup.arg
        /\ (\A i \in 1..Len(provider.songs) : provider.songs[i].id # lookup.arg) =>
              lookup.result = None

\* a catalog of two songs with an alias list, queried for its second song
C9_Witness ==
    /\ CatalogBuilt /\ lookup.op = "by_id" /\ UniqueIds(provider.songs)
    /\ Len(provider.songs) = 2
    /\ Len(Val(provider.aliases)) > 0
    /\ lookup.arg = provider.songs[2].id
    /\ lookup.result = Some(2)

\* no alias string is given to two different songs
UniqueAliases(aliases) ==
    \A i, j \in 1..Len(aliases) :
        (SeqToSet(aliases[i].aliases) \cap SeqToSet(aliases[j].aliases) # {}) =>
            aliases[i].song_id = aliases[j].song_id
\* the alias list gives alias a to song id
AliasOf(aliases, a, id) ==
    \E i \in 1..Len(aliases) : aliases[i].song_id = id /\ a \in SeqToSet(aliases[i].aliases)
InCatalog(songs, id) == \E i \in 1..Len(songs) : songs[i].id = id

\* C10: with alias strings unique across songs, by_alias(a) is by_id(id) when
\* the alias list maps a to id, and None when a is the alias of no catalog
\* song (never registered, or registered for an id the catalog does not
\* hold), whatever ids the catalog holds.
C10_ByAlias ==
    (CatalogBuilt /\ lookup.op = "by_alias" /\ UniqueAliases(Val(provider.aliases))) =>
        /\ \A id \in AliasTargets :
              AliasOf(Val(provider.aliases), lookup.arg, id) =>
                  lookup.result = by_id(Val(cached_songs), id)
        /\ (~\E id \in AliasTargets :
                /\ AliasOf(Val(provider.aliases), lookup.arg, id)
                /\ InCatalog(provider.songs, id)) =>
              lookup.result = None

----------------------------------------------------------------------------
(* the score claims *)

KeysOf(scores) == {score_key(scores[i]) : i \in 1..Len(scores)}

\* C1: the output of _get_distinct_scores holds exactly one score for every
\* (song id, chart type, level index) of the input and none for any other,
\* and that score is an input score with this key that no input score with
\* the same key exceeds under (dx_rating, dx_score, achievements).
C1_DistinctScores ==
    LET in == distinct_call.in
        out == distinct_call.out
    IN /\ KeysOf(out) = KeysOf(in)
       /\ \A i, j \in 1..Len(out) : score_key(out[i]) = score_key(out[j]) => i = j
       /\ \A i \in 1..Len(out) :
             /\ \E k \in 1..Len(in) : in[k] = out[i]
             /\ \A k \in 1..Len(in) :
                   score_key(in[k]) = score_key(out[i]) =>
                       ~KeyGreater(SortKey(in[k]), SortKey(out[i]))

\* a list with a 98% and then a 99% score of one chart, and a score of
\* another chart: the 99% one and the other chart's are what is left
C1_Witness ==
    /\ Len(distinct_call.in) = 3
    /\ Len(distinct_call.out) = 2
    /\ distinct_call.in[1] = Score(1, "dx", 3, GradeA)
    /\ distinct_call.in[2] = Score(1, "dx", 3, GradeB)
    /\ distinct_call.out[1] = Score(1, "dx", 3, GradeB)

RECURSIVE RatingTotal(_, _)
\* the dx_rating of scores[1..n], added up
RatingTotal(scores, n) ==
    IF n = 0 THEN 0 ELSE RatingTotal(scores, n - 1) + scores[n].dx_rating

\* C2: every aggregate that a construction produced has rating_b35 the sum
\* of dx_rating over scores_b35, rating_b15 the sum over scores_b15, and
\* rating their sum.
C2_RatingSums ==
    \A i \in 1..Len(chain) :
        chain[i].ok =>
            LET o == chain[i].obj
            IN /\ o.rating_b35 = RatingTotal(o.scores_b35, Len(o.scores_b35))
               /\ o.rating_b15 = RatingTotal(o.scores_b15, Len(o.scores_b15))
               /\ o.rating = o.rating_b35 + o.rating_b15

\* an aggregate of a full list and two best lists that are not empty
C2_Witness ==
    /\ Len(chain) >= 1 /\ chain[1].ok
    /\ Truthy(player.all)
    /\ chain[1].obj.rating_b35 > 0
    /\ chain[1].obj.rating_b15 > 0
    /\ chain[1].obj.rating # RatingTotal(chain[1].obj.scores, Len(chain[1].obj.scores))

\* C3 as claimed: every aggregate has at most 35 scores in scores_b35 and at
\* most 15 in scores_b15, whatever lists its constructor was given.
C3_LengthLimits ==
    \A i \in 1..Len(chain) :
        chain[i].ok =>
            /\ Len(chain[i].obj.scores_b35) <= B35Limit
            /\ Len(chain[i].obj.scores_b15) <= B15Limit

GivenLen(o) == IF IsNone(o) THEN 0 ELSE Len(Val(o))

\* C3 as amended: an aggregate has at most 35 scores in scores_b35 when the
\* b35 its constructor was given has at most 35, and at most 15 in scores_b15
\* when the b15 given has at most 15.
C3_LengthsAsGiven ==
    \A i \in 1..Len(chain) :
        chain[i].ok =>
            /\ GivenLen(player.b35) <= B35Limit =>
                  Len(chain[i].obj.scores_b35) <= B35Limit
            /\ GivenLen(player.b15) <= B15Limit =>
                  Len(chain[i].obj.scores_b15) <= B15Limit

\* an aggregate of a b35 longer than 15 and a b15 within 15
C3_Witness ==
    /\ Len(chain) >= 1 /\ chain[1].ok
    /\ GivenLen(player.b35) > B15Limit /\ GivenLen(player.b35) <= B35Limit
    /\ GivenLen(player.b15) > 0 /\ GivenLen(player.b15) <= B15Limit
    /\ Len(chain[1].obj.scores_b35) = GivenLen(player.b35)

\* the constructor was given a full list and lacks b35 or b15 (line 301)
Derives(p) == (~Truthy(p.b35) \/ ~Truthy(p.b15)) /\ Truthy(p.all)
\* the deduplicated scores of the full list whose song the catalog lacks
MissingScores(p) ==
    {x \in SeqToSet(get_distinct_scores(Val(p.all))) :
        ~InCatalog(provider.songs, x.id)}

\* C7: when a construction derives b35/b15 from a full list and a
\* deduplicated score is of a song the catalog does not hold, the
\* construction fails, and the two pools are never built without that score.
C7_MissingSongFails ==
    (Len(chain) = 1 /\ Derives(player) /\ MissingScores(player) # {}) =>
        /\ ~chain[1].ok
        /\ ~IsNone(pools) =>
              MissingScores(player) \subseteq
                  SeqToSet(Val(pools).scores_old) \cup SeqToSet(Val(pools).scores_new)

\* C8: where s.as_distinct is defined, s.as_distinct.as_distinct is defined
\* too and has the same scores, scores_b35, scores_b15 and rating totals.
C8_AsDistinctIdempotent ==
    \A i \in 2..Len(chain) :
        (chain[i].ok /\ i < Len(chain)) =>
            /\ chain[i + 1].ok
            /\ chain[i + 1].obj = chain[i].obj

\* s holds two scores of one chart and a score of another, as_distinct drops
\* one, and as_distinct of that drops nothing more
C8_Witness ==
    /\ Len(chain) = 3 /\ chain[3].ok
    /\ Len(chain[1].obj.scores) = 3
    /\ Len(chain[2].obj.scores) = 2
    /\ chain[3].obj = chain[2].obj

\* the version of the catalog song with the id
VersionOf(songs, id) ==
    songs[CHOOSE i \in 1..Len(songs) : songs[i].id = id].version
\* the deduplicated scores of the full list whose song is older than the
\* current version, and those whose song is of it or newer
OldPool(p) ==
    {x \in SeqToSet(get_distinct_scores(Val(p.all))) :
        InCatalog(provider.songs, x.id)
            /\ VersionOf(provider.songs, x.id) < current_version}
NewPool(p) ==
    {x \in SeqToSet(get_distinct_scores(Val(p.all))) :
        InCatalog(provider.songs, x.id)
            /\ VersionOf(provider.songs, x.id) >= current_version}
Min(a, b) == IF a < b THEN a ELSE b
\* best is the limit highest scores of the pool, highest first
IsBestOf(best, pool, limit) ==
    /\ Len(best) = Min(limit, Cardinality(pool))
    /\ SeqToSet(best) \subseteq pool
    /\ \A i, j \in 1..Len(best) : i # j => best[i] # best[j]
    /\ \A i \in 1..Len(best) - 1 : ~KeyGreater(SortKey(best[i + 1]), SortKey(best[i]))
    /\ \A x \in pool \ SeqToSet(best), i \in 1..Len(best) :
          ~KeyGreater(SortKey(x), SortKey(best[i]))

\* C11: a MaimaiScores built from a full score list without precomputed
\* b35/b15 is constructed, its scores_b35 are the min(35, n_old) highest
\* deduplicated scores of songs older than the current version and its
\* scores_b15 the min(15, n_new) highest of the others, a pool shorter than
\* the limit (an empty one too) being taken whole.
C11_BestDerivation ==
    (Len(chain) >= 1 /\ IsNone(player.b35) /\ IsNone(player.b15)
        /\ Truthy(player.all)) =>
        /\ chain[1].ok
        /\ IsBestOf(chain[1].obj.scores_b35, OldPool(player), B35Limit)
        /\ IsBestOf(chain[1].obj.scores_b15, NewPool(player), B15Limit)

----------------------------------------------------------------------------
(* the plate claims *)

Computed(p) ==
    ~IsNone(p.cache.all) /\ ~IsNone(p.cache.cleared) /\ ~IsNone(p.cache.remained)

\* C4: the level counters of every plate satisfy
\* all_num = cleared_num + remained_num.
C4_Counters ==
    \A i \in 1..Len(plates) :
        Computed(plates[i]) =>
            level_count(Val(plates[i].cache.all)) =
                level_count(Val(plates[i].cache.cleared))
                    + level_count(Val(plates[i].cache.remained))

\* the goal of each kind, as the claim names the grades
ClaimMeets(kind, score) ==
    CASE kind = "zhe" ->
            score.rate \in {"SSSP", "SSS", "SSP", "SS", "SP", "S", "AAA", "AA", "A"}
      [] kind = "jiang" -> score.rate \in {"SSSP", "SSS"}
      [] kind = "ji" -> score.fc \in {"APP", "AP", "FCP", "FC"}
      [] kind = "wuwu" -> score.fs \in {"FSDP", "FSD"}
      [] kind = "shen" -> score.fc \in {"APP", "AP"}

ChartTypes == {"standard", "dx"}
LevelIndexes == 0..ReMASTER
GroupOf(song, type) == IF type = "standard" THEN song.standard ELSE song.dx
\* the song has a chart list whose first chart is of one of the versions
Matching(song, versions) ==
    \E type \in ChartTypes :
        /\ GroupOf(song, type) # << >>
        /\ \E v \in SeqToSet(versions) : GroupOf(song, type)[1].version % v <= 100
\* the chart (type, level) of the song is a level the plate asks for
Applicable(p, song, type, level) ==
    /\ \E i \in 1..Len(GroupOf(song, type)) : GroupOf(song, type)[i].level_index = level
    /\ ~(p.version \notin {"wu", "ba"} /\ level = ReMASTER)
\* the best scores of the player on the chart
PlayerBest(song, type, level) ==
    LET on == {x \in SeqToSet(Val(player.all)) : score_key(x) = <<song.id, type, level>>}
    IN {x \in on : \A y \in on : ~KeyGreater(SortKey(y), SortKey(x))}
ClearedLevel(p, song, type, level) ==
    /\ Applicable(p, song, type, level)
    /\ \E x \in PlayerBest(song, type, level) : ClaimMeets(p.kind, x)
\* how often the view lists the level for the song
CountIn(view, song, level) ==
    LET entries == {j \in 1..Len(view) : view[j].song.id = song.id}
        Is(l) == l = level
    IN IF entries = {} THEN 0
       ELSE Len(SelectSeq(view[CHOOSE j \in entries : TRUE].levels, Is))

Canonical(token) ==
    IF token = "ba_variant" THEN "ba" ELSE IF token = "ji_variant" THEN "ji" ELSE token
\* a version token that resolves to no ordinal, a kind that is none of the five
Unresolvable(version_str) ==
    Canonical(version_str) \notin {"zhen", "ba", "wu"} \cup SeqToSet(plate_to_version.keys)
Unrecognized(kind) ==
    Canonical(kind) \notin {"jiang", "zhe", "ji", "wuwu", "shen"}

\* C6: constructing a plate with a version token that resolves to no ordinal
\* or with a kind that is none of the five fails with InvalidPlateError, and
\* no plate is produced.
C6_InvalidPlate ==
    (lookup.op = "plates" /\ (Unresolvable(lookup.arg[1]) \/ Unrecognized(lookup.arg[2]))) =>
        /\ raised.type = "InvalidPlateError"
        /\ plates = << >>

\* self.songs of a plate: the attribute is never assigned on the object, so
\* it reads the list of the class
SongsOf(p) == plate_songs
\* the song list the plate would hold had it been the only plate constructed
OwnSongs(p) ==
    plate_songs_appended(<< >>, Val(cached_songs), p.versions,
                         Len(songs_of(Val(cached_songs))))

\* C12: after any sequence of plate constructions in one process, the songs
\* of each plate are only catalog songs that pass the era test for the
\* plate's own versions, and each view computed is the one the plate would
\* have had as the only plate ever constructed.
C12_NoSharedState ==
    \A i \in 1..Len(plates) :
        LET p == plates[i]
        IN /\ \A j \in 1..Len(SongsOf(p)) : Matching(SongsOf(p)[j], p.versions)
           /\ ~IsNone(p.cache.all) => Val(p.cache.all) = all(p, OwnSongs(p))
           /\ ~IsNone(p.cache.cleared) => Val(p.cache.cleared) = cleared(p, OwnSongs(p))
           /\ ~IsNone(p.cache.remained) => Val(p.cache.remained) = remained(p, OwnSongs(p))

\* the ordinals the claim gives a canonical version token
ClaimVersions(version_str) ==
    IF version_str = "zhen"
    THEN {DictGet(plate_to_version, "chu", 0), DictGet(plate_to_version, "zhen", 0)}
    ELSE IF version_str \in {"ba", "wu"}
    THEN {v \in SeqToSet(DictValues(plate_to_version)) : v < 20000}
    ELSE {DictGet(plate_to_version, version_str, 0)}

\* C13: a plate of token zhen is built for exactly the ordinals of chu and
\* zhen, a plate of ba or wu for every known ordinal below 20000, and a plate
\* of any other recognized token for its single mapped ordinal, also when
\* zhen, ba or wu have an entry of their own in the table.
C13_Resolution ==
    \A i \in 1..Len(plates) :
        SeqToSet(plates[i].versions) = ClaimVersions(plates[i].version)

\* MaimaiClient.songs has run: it cached a catalog or raised
SongsCalled == CatalogBuilt \/ raised # NoError

\* C14: when the alias provider is absent or returns none, building the
\* catalog succeeds: every song of the list is retrievable by id and no
\* alias is registered.
C14_NoAliases ==
    (IsNone(provider.aliases) /\ SongsCalled) =>
        /\ raised = NoError
        /\ CatalogBuilt
        /\ \A i \in 1..Len(provider.songs) :
              ~IsNone(by_id(Val(cached_songs), provider.songs[i].id))
        /\ Val(cached_songs).alias_entry_dict = DictEmpty

====
